---- MODULE Spec2Model ----
(***************************************************************************)
(* Model of the swsoc-processing-lambda file-processing pipeline.          *)
(*                                                                         *)
(* The repository holds two generations of the pipeline:                   *)
(*   "old": lambda_function/handler.py (handler_function) driving          *)
(*          lambda_function/file_processor/file_processor.py, with the     *)
(*          helpers of lambda_function/file_processor/util.py;             *)
(*   "new": lambda_function/src/file_processor/file_processor.py           *)
(*          (handle_event, FileProcessor and its static methods).          *)
(* Both are modelled; run[p].impl says which one an invocation executes.   *)
(***************************************************************************)
EXTENDS Integers, Sequences, FiniteSets, TLC

VARIABLES
    store,       \* objects present in the blob store: set of <<bucket, key>>
    uploads,     \* every s3_client.upload_file call that succeeded, in order
    timestream,  \* records written to the Timestream table, in order
    nruns,       \* invocations started so far
    run          \* per invocation: configuration, locals and position

vars == <<store, uploads, timestream, nruns, run>>

(***************************** bounds **************************************)
MaxRuns == 2
MaxRecords == 2
MaxRetries == 1

Procs == {"p1", "p2"}

\* The invocations that run one after another (no overlap).
SeqProcs == {"p1"}

(***************************** values **************************************)
None == "None"
Unbound == "<unbound>"
NoKey == <<>>

Truthy(v) == v = "True"

F_L0 == "hermes_EEA_l0_2023042-000000_v0.bin"
F_L1 == "hermes_eea_l1_20230211T000000_v1.0.0.cdf"
F_QL == "hermes_eea_ql_20230211T000000_v1.0.0.cdf"
F_M0 == "hermes_MERIT_l0_2023340-000019_v01.bin"
F_M1 == "hermes_mrt_l1_20231206T000019_v1.0.0.cdf"
F_BAD == "test-file-key.txt"
F_UNK == "hermes_LYRA_l0_2023042-000000_v0.bin"

FileNames == {F_L0, F_L1, F_QL, F_M0, F_M1, F_BAD, F_UNK}

MISSION_NAME == "hermes"
INSTR_NAMES == {"eea", "merit"}

INSTR_TO_BUCKET_NAME(instr) == MISSION_NAME \o "-" \o instr

INSTR_TO_PKG(instr) == MISSION_NAME \o "_" \o instr

\* The science filename parser (an imported capability): the descriptor of a
\* filename of the recognised grammar, a ValueError for any other.
science_filename_parser(f) ==
    CASE f = F_L0 -> [ok |-> TRUE, instrument |-> "eea", level |-> "l0", year |-> 2023, month |-> 2]
      [] f = F_L1 -> [ok |-> TRUE, instrument |-> "eea", level |-> "l1", year |-> 2023, month |-> 2]
      [] f = F_QL -> [ok |-> TRUE, instrument |-> "eea", level |-> "ql", year |-> 2023, month |-> 2]
      [] f = F_M0 -> [ok |-> TRUE, instrument |-> "merit", level |-> "l0", year |-> 2023, month |-> 12]
      [] f = F_M1 -> [ok |-> TRUE, instrument |-> "merit", level |-> "l1", year |-> 2023, month |-> 12]
      [] f = F_UNK -> [ok |-> TRUE, instrument |-> "lyra", level |-> "l0", year |-> 2023, month |-> 2]
      [] OTHER -> [ok |-> FALSE, exc |-> "ValueError"]

\* Deterministic calibration: the products process_file derives from a file.
CalibrationProducts(f) ==
    CASE f = F_L0 -> <<F_L1, F_QL>>
      [] f = F_M0 -> <<F_M1>>
      [] f = F_L1 -> <<F_QL>>
      [] OTHER -> <<>>

Digits == <<"0", "1", "2", "3", "4", "5", "6", "7", "8", "9">>

RECURSIVE str(_)
str(n) == IF n < 10 THEN Digits[n + 1] ELSE str(n \div 10) \o Digits[(n % 10) + 1]

\* parse_file_key / file_key.split("/")[-1]: the last path segment of a key.
parse_file_key(file_key) == file_key[Len(file_key)]

new_file_key_Unpadded(science_file, old_file_key) ==
    <<science_file.level, str(science_file.year), str(science_file.month), old_file_key>>

\* create_s3_file_key, the formatting: f"{level}/{year}/{month}/{old_file_key}"
\* with month = f"0{month}" below 10. A key is the sequence of its segments.
new_file_key(science_file, old_file_key) ==
    LET month == IF science_file.month < 10
                 THEN "0" \o str(science_file.month)
                 ELSE str(science_file.month)
    IN  <<science_file.level, str(science_file.year), month, old_file_key>>

\* create_s3_file_key with the science filename parser as science_file_parser:
\* the parser's error is not caught.
create_s3_file_key(old_file_key) ==
    LET science_file == science_filename_parser(old_file_key)
    IN  IF ~science_file.ok
        THEN [ok |-> FALSE, exc |-> science_file.exc, key |-> NoKey]
        ELSE [ok |-> TRUE, exc |-> "none", key |-> new_file_key(science_file, old_file_key)]

JsonDumps(s) == "\"" \o s \o "\""

(***************************** events **************************************)
SOURCE_BUCKET == "hermes-eea"

\* One storage-change notification: {bucket, objectKey}.
S3Event(f) == [bucket |-> SOURCE_BUCKET, key |-> <<"l0", "2023", "02", f>>]

SourceFiles == {F_L0, F_M0, F_BAD, F_UNK}

S3Events == {S3Event(f) : f \in SourceFiles}

\* The notifications a trigger envelope is built from.
RecordEvents == {S3Event(F_L0), S3Event(F_BAD)}

\* A notification without the "s3" entry: indexing it is a KeyError.
MalformedEvent == [bucket |-> Unbound, key |-> NoKey]

RECURSIVE SeqsUpTo(_, _)
SeqsUpTo(S, n) ==
    IF n = 0 THEN {<<>>}
    ELSE LET shorter == SeqsUpTo(S, n - 1)
         IN  shorter \cup {Append(q, x) : q \in {t \in shorter : Len(t) = n - 1}, x \in S}

\* A trigger envelope: `outer` SNS records (0 is {"Records": []}), the first
\* carrying a message whose "Records" is the list `records`.
Envelopes ==
    {[outer |-> 0, records |-> <<>>]}
    \cup {[outer |-> 1, records |-> rs] :
             rs \in SeqsUpTo(RecordEvents \cup {MalformedEvent}, MaxRecords)}

Environments == {"DEVELOPMENT", "PRODUCTION"}

(***************************** responses ***********************************)
NoResponse == [statusCode |-> 0, body |-> Unbound]

\* The value of a function that falls off its end without a return statement.
NoneResponse == [statusCode |-> 0, body |-> None]

Response200(impl) ==
    [statusCode |-> 200,
     body |-> IF impl = "old" THEN JsonDumps("File Processed Successfully")
              ELSE "File Processed Successfully"]

Response500_AsSuccess(e) ==
    [statusCode |-> 200, body |-> JsonDumps("File Processed Successfully")]

Response500(e) ==
    [statusCode |-> 500, body |-> JsonDumps("Error Processing File: " \o e)]

(***************************** invocations *********************************)
\* No descriptor has been handed to the key builder.
NoDescriptor == [ok |-> FALSE, exc |-> "none"]

\* No call of send_slack_notification has been made.
NoSlack ==
    [called |-> FALSE, outcomes |-> <<>>, raised |-> FALSE, result |-> None,
     attempts |-> 0, sleeps |-> 0]

IdleRun ==
    [pc |-> "idle", impl |-> "none", entry |-> "none", argc |-> 0,
     outer |-> 0, records |-> <<>>, idx |-> 0, nfp |-> 0,
     s3_bucket |-> Unbound, file_key |-> NoKey,
     LAMBDA_ENVIRONMENT |-> None,
     environment |-> Unbound, dry_run |-> None, file_path_env |-> FALSE,
     slack_token |-> None, slack_channel |-> None,
     slack_client |-> FALSE, slack_retries |-> 0,
     parsed_file_key |-> Unbound, file_path |-> None,
     this_instr |-> Unbound, destination_bucket |-> Unbound,
     new_file_path |-> Unbound, new_file_key |-> NoKey,
     exc |-> "none", raised |-> {}, response |-> NoResponse, ret |-> NoKey,
     science_file |-> NoDescriptor, slack_sent |-> NoSlack, steps |-> <<>>]

\* The token and the channel when given (as arguments or in the environment
\* variables SDC_AWS_SLACK_TOKEN / SDC_AWS_SLACK_CHANNEL).
SLACK_TOKEN == "slack-token"
SLACK_CHANNEL == "slack-channel"

\* FileProcessor.__init__: a Slack client is made when both the token and
\* the channel are there, otherwise self.slack_client is None.
get_slack_client(slack_token, slack_channel) ==
    slack_token # None /\ slack_channel # None

SourceObject(f) == <<S3Event(f).bucket, S3Event(f).key>>

\* The source objects are in their bucket, except those already deleted.
Init ==
    /\ \E gone \in SUBSET {SourceObject(F_L0)} :
          store = {SourceObject(f) : f \in SourceFiles} \ gone
    /\ uploads = <<>>
    /\ timestream = <<>>
    /\ nruns = 0
    /\ run = [p \in Procs |-> IdleRun]

Range(q) == {q[i] : i \in DOMAIN q}

AllIdle == \A q \in Procs : run[q].pc = "idle"

Set(p, r) == run' = [run EXCEPT ![p] = r]

Step(r, name) == [r EXCEPT !.steps = Append(@, name)]

Raise_Continue(r, e) ==
    IF r.entry = "handler"
    THEN [r EXCEPT !.pc = "h_loop", !.idx = @ + 1, !.exc = e, !.raised = @ \cup {e}]
    ELSE [r EXCEPT !.pc = "raised", !.exc = e, !.raised = @ \cup {e}]

\* An exception leaves FileProcessor(...): the handler's except clause turns it
\* into the 500 response; any other caller sees the exception.
Raise(r, e) ==
    IF r.entry = "handler"
    THEN [r EXCEPT !.pc = "returned", !.exc = e, !.raised = @ \cup {e},
                   !.response = Response500(e)]
    ELSE [r EXCEPT !.pc = "raised", !.exc = e, !.raised = @ \cup {e}]

\* FileProcessor(...) returns normally: handle_event returns 200 at once,
\* handler_function goes on with the next record.
Return(r) ==
    IF r.entry = "handler"
    THEN IF r.impl = "new"
         THEN [r EXCEPT !.pc = "returned", !.response = Response200("new")]
         ELSE [r EXCEPT !.pc = "h_loop", !.idx = @ + 1]
    ELSE [r EXCEPT !.pc = "returned"]

\* os.getenv(name, default), `value` being the variable's value (None: unset).
getenv(value, default) == IF value = None THEN default ELSE value

\* handler_function(event, context) / handle_event(event, context) is invoked,
\* the variable LAMBDA_ENVIRONMENT being unset or set. handle_event reads it
\* (default "DEVELOPMENT"); handler_function reads no environment.
Invoke(p) ==
    /\ AllIdle
    /\ nruns < MaxRuns
    /\ \E impl \in {"old", "new"}, ev \in Envelopes,
          lambda_environment \in {None} \cup Environments, slack \in BOOLEAN :
        /\ impl = "new" => ~slack
        /\ impl = "old" => lambda_environment = None
        /\ Set(p, [IdleRun EXCEPT !.pc = "h_records", !.impl = impl,
                                  !.entry = "handler",
                                  !.outer = ev.outer, !.records = ev.records,
                                  !.LAMBDA_ENVIRONMENT = lambda_environment,
                                  !.environment =
                                      IF impl = "new"
                                      THEN getenv(lambda_environment, "DEVELOPMENT")
                                      ELSE "DEVELOPMENT",
                                  !.slack_token = IF slack THEN SLACK_TOKEN ELSE None,
                                  !.slack_channel = IF slack THEN SLACK_CHANNEL ELSE None,
                                  !.slack_client = slack,
                                  !.slack_retries = IF slack THEN MaxRetries ELSE 0])
    /\ nruns' = nruns + 1
    /\ UNCHANGED <<store, uploads, timestream>>

\* records = json.loads(event["Records"][0]["Sns"]["Message"])["Records"]
H_Records(p) ==
    /\ run[p].pc = "h_records"
    /\ Set(p, IF run[p].outer = 0
              THEN Raise(run[p], "IndexError")
              ELSE [run[p] EXCEPT !.pc = "h_loop", !.idx = 1])
    /\ UNCHANGED <<store, uploads, timestream, nruns>>

\* for s3_event in records: ... FileProcessor(s3_bucket=..., file_key=...)
H_Loop(p) ==
    /\ run[p].pc = "h_loop"
    /\ LET r == run[p] IN
       Set(p, IF r.idx > Len(r.records)
              THEN [r EXCEPT !.pc = "returned",
                             !.response = IF r.impl = "old" THEN Response200("old")
                                          ELSE NoneResponse]
              ELSE IF r.records[r.idx] = MalformedEvent
              THEN Raise(r, "KeyError")
              ELSE [r EXCEPT !.pc = "init",
                             !.s3_bucket = r.records[r.idx].bucket,
                             !.file_key = r.records[r.idx].key,
                             !.nfp = @ + 1,
                             !.parsed_file_key = Unbound, !.file_path = None,
                             !.this_instr = Unbound, !.destination_bucket = Unbound,
                             !.new_file_path = Unbound, !.new_file_key = NoKey,
                             !.steps = <<>>])
    /\ UNCHANGED <<store, uploads, timestream, nruns>>

\* The caller has the outcome; the invocation's frame is gone.
Collect(p) ==
    /\ run[p].pc \in {"returned", "raised"}
    /\ Set(p, IdleRun)
    /\ UNCHANGED <<store, uploads, timestream, nruns>>

(***************************** collaborators *******************************)
\* s3_client.head_object: what the backend can answer for an object.
HeadOutcomes(bucket, key) ==
    (IF <<bucket, key>> \in store THEN {"ok"} ELSE {"ClientError404"})
    \cup {"ClientError500", "EndpointConnectionError"}

object_exists_MaskingTransport(outcome) ==
    CASE outcome = "ok" -> [raised |-> FALSE, value |-> TRUE, exc |-> "none"]
      [] OTHER -> [raised |-> FALSE, value |-> FALSE, exc |-> "none"]

\* object_exists: True on an answer, False on any ClientError; anything else
\* the client raises is not caught.
object_exists(outcome) ==
    CASE outcome = "ok" -> [raised |-> FALSE, value |-> TRUE, exc |-> "none"]
      [] outcome \in {"ClientError404", "ClientError500"} ->
            [raised |-> FALSE, value |-> FALSE, exc |-> "none"]
      [] OTHER -> [raised |-> TRUE, value |-> FALSE, exc |-> outcome]

\* s3_client.download_file: succeeds only on a present object.
DownloadOutcomes(bucket, key) ==
    (IF <<bucket, key>> \in store THEN {"ok"} ELSE {}) \cup {"ClientError"}

\* download_file_from_s3: the local path /tmp/{parsed_file_key}.
download_file_from_s3(parsed_file_key) == "/tmp/" \o parsed_file_key

UploadOutcomes == {"ok", "S3UploadFailedError"}

\* calibration.process_file(file_path): a failure, an empty product list, or
\* the products of the file at that path; with no file (None) there is
\* nothing to derive products from.
ProcessFileOutcomes(r) ==
    {[raised |-> TRUE, exc |-> e, products |-> <<>>] : e \in {"ValueError", "Exception"}}
    \cup {[raised |-> FALSE, exc |-> "none", products |-> <<>>]}
    \cup (IF r.file_path = None THEN {}
          ELSE {[raised |-> FALSE, exc |-> "none",
                 products |-> CalibrationProducts(r.parsed_file_key)]})

TimestreamOutcomes == {"ok", "ClientError"}

SlackAttempt == {"ok", "SlackApiError", "Exception"}

RECURSIVE SeqsOfLen(_, _)
SeqsOfLen(S, n) ==
    IF n = 0 THEN {<<>>}
    ELSE {Append(q, x) : q \in SeqsOfLen(S, n - 1), x \in S}

\* send_slack_notification: the counted loop over the attempts' outcomes.
\* result "True" on delivery, "None" when the budget is used up.
RECURSIVE SlackLoop(_, _, _, _)
SlackLoop(i, slack_max_retries, outcomes, sleeps) ==
    IF i >= slack_max_retries
    THEN [raised |-> FALSE, result |-> None, attempts |-> i, sleeps |-> sleeps]
    ELSE CASE outcomes[i + 1] = "ok" ->
                [raised |-> FALSE, result |-> "True", attempts |-> i + 1, sleeps |-> sleeps]
           [] outcomes[i + 1] = "SlackApiError" ->
                IF i < slack_max_retries - 1
                THEN SlackLoop(i + 1, slack_max_retries, outcomes, sleeps + 1)
                ELSE [raised |-> FALSE, result |-> None, attempts |-> i + 1, sleeps |-> sleeps]
           [] OTHER ->
                [raised |-> TRUE, result |-> None, attempts |-> i + 1, sleeps |-> sleeps]

send_slack_notification(slack_max_retries, outcomes) ==
    SlackLoop(0, slack_max_retries, outcomes, 0)

\* What one call of send_slack_notification did, given the outcome of each
\* chat_postMessage attempt it could make.
SlackCall(slack_max_retries, outcomes) ==
    LET sent == send_slack_notification(slack_max_retries, outcomes)
    IN  [called |-> TRUE, outcomes |-> outcomes, raised |-> sent.raised,
         result |-> sent.result, attempts |-> sent.attempts, sleeps |-> sent.sleeps]

(***************************** old pipeline ********************************)
\* FileProcessor.__init__: the clients are created, then _process_file runs.
FP_Init(p) ==
    /\ run[p].pc = "init"
    /\ LET r == run[p] IN
       IF r.impl = "old"
       THEN \E clients \in {"ok", "NoRegionError"} :
              Set(p, IF clients = "ok" THEN [Step(r, "init") EXCEPT !.pc = "o_exists"]
                     ELSE Raise(r, clients))
       ELSE Set(p, [Step(r, "init") EXCEPT !.pc = "n_parse"])
    /\ UNCHANGED <<store, uploads, timestream, nruns>>

\* except Exception as e: notify (the message reads new_file_path and
\* destination_bucket), then raise e.
OuterExcept(r, e) ==
    LET r1 == [r EXCEPT !.raised = @ \cup {e}]
    IN  IF ~r.slack_client THEN Raise(r1, e)
        ELSE IF r.new_file_path = Unbound \/ r.destination_bucket = Unbound
             THEN Raise(r1, "UnboundLocalError")
             ELSE [r1 EXCEPT !.pc = "o_except", !.exc = e]

\* except ValueError as e: log.error(e)
InnerExcept(r, e) ==
    IF e = "ValueError"
    THEN Return([Step(r, "value_error_logged") EXCEPT !.raised = @ \cup {e}])
    ELSE OuterExcept(r, e)

O_Exists_IgnoringDryRun(p) ==
    /\ run[p].pc = "o_exists"
    /\ LET r == run[p] IN
       \E h \in HeadOutcomes(r.s3_bucket, r.file_key) :
         LET ex == object_exists(h)
             r1 == Step(r, "head:" \o h)
         IN  Set(p, IF ex.raised THEN Raise(r1, ex.exc)
                    ELSE IF ex.value
                         THEN [r1 EXCEPT !.pc = IF Truthy(r.dry_run) THEN "o_parse"
                                                ELSE "o_download",
                                         !.parsed_file_key = parse_file_key(r.file_key)]
                         ELSE Return(r1))
    /\ UNCHANGED <<store, uploads, timestream, nruns>>

\* if object_exists(...) or self.dry_run: ... ; otherwise nothing is done.
O_Exists(p) ==
    /\ run[p].pc = "o_exists"
    /\ LET r == run[p] IN
       \E h \in HeadOutcomes(r.s3_bucket, r.file_key) :
         LET ex == object_exists(h)
             r1 == Step(r, "head:" \o h)
         IN  Set(p, IF ex.raised THEN Raise(r1, ex.exc)
                    ELSE IF ex.value \/ Truthy(r.dry_run)
                         THEN [r1 EXCEPT !.pc = IF Truthy(r.dry_run) THEN "o_parse"
                                                ELSE "o_download",
                                         !.parsed_file_key = parse_file_key(r.file_key)]
                         ELSE Return(r1))
    /\ UNCHANGED <<store, uploads, timestream, nruns>>

\* if not self.dry_run: file_path = download_file_from_s3(...)
O_Download(p) ==
    /\ run[p].pc = "o_download"
    /\ LET r == run[p] IN
       \E d \in DownloadOutcomes(r.s3_bucket, r.file_key) :
         Set(p, IF d = "ok"
                THEN [Step(r, "download") EXCEPT
                        !.pc = "o_parse",
                        !.file_path = download_file_from_s3(r.parsed_file_key)]
                ELSE OuterExcept(r, d))
    /\ UNCHANGED <<store, uploads, timestream, nruns>>

\* science_file = parser(parsed_file_key); the destination bucket and the
\* calibration package are looked up by instrument.
O_Parse(p) ==
    /\ run[p].pc = "o_parse"
    /\ LET r == run[p]
           science_file == science_filename_parser(r.parsed_file_key)
       IN  Set(p, IF ~science_file.ok
                  THEN OuterExcept(Step(r, "parse_failed"), science_file.exc)
                  ELSE IF science_file.instrument \notin INSTR_NAMES
                       THEN OuterExcept([r EXCEPT !.this_instr = science_file.instrument],
                                        "KeyError")
                       ELSE [Step(r, "parse") EXCEPT
                               !.pc = "o_calibrate",
                               !.this_instr = science_file.instrument,
                               !.destination_bucket =
                                   INSTR_TO_BUCKET_NAME(science_file.instrument)])
    /\ UNCHANGED <<store, uploads, timestream, nruns>>

O_Calibrate_LastProduct(p) ==
    /\ run[p].pc = "o_calibrate"
    /\ LET r == run[p] IN
       \E c \in ProcessFileOutcomes(r) :
         LET r1 == Step(r, "calibrate")
         IN  Set(p, IF c.raised THEN InnerExcept(Step(r1, "calibrate_failed"), c.exc)
                    ELSE IF c.products = <<>> THEN InnerExcept(r1, "IndexError")
                    ELSE [r1 EXCEPT !.pc = "o_key",
                                    !.new_file_path = c.products[Len(c.products)]])
    /\ UNCHANGED <<store, uploads, timestream, nruns>>

O_Calibrate_RetryingOnce(p) ==
    /\ run[p].pc = "o_calibrate"
    /\ LET r == run[p] IN
       \E c \in ProcessFileOutcomes(r) :
         LET r1 == Step(r, "calibrate")
         IN  Set(p, IF c.raised
                    THEN IF "calibrate_failed" \in Range(r.steps)
                         THEN InnerExcept(Step(r1, "calibrate_failed"), c.exc)
                         ELSE Step(r1, "calibrate_failed")
                    ELSE IF c.products = <<>> THEN InnerExcept(r1, "IndexError")
                    ELSE [r1 EXCEPT !.pc = "o_key", !.new_file_path = c.products[1]])
    /\ UNCHANGED <<store, uploads, timestream, nruns>>

\* new_file_path = calibration.process_file(file_path)[0].name
O_Calibrate(p) ==
    /\ run[p].pc = "o_calibrate"
    /\ LET r == run[p] IN
       \E c \in ProcessFileOutcomes(r) :
         LET r1 == Step(r, "calibrate")
         IN  Set(p, IF c.raised THEN InnerExcept(Step(r1, "calibrate_failed"), c.exc)
                    ELSE IF c.products = <<>> THEN InnerExcept(r1, "IndexError")
                    ELSE [r1 EXCEPT !.pc = "o_key", !.new_file_path = c.products[1]])
    /\ UNCHANGED <<store, uploads, timestream, nruns>>

O_Key_FromSource(p) ==
    /\ run[p].pc = "o_key"
    /\ LET r == run[p]
           k == create_s3_file_key(r.parsed_file_key)
       IN  Set(p, IF ~k.ok THEN InnerExcept(r, k.exc)
                  ELSE LET r1 == [Step(r, "key") EXCEPT !.new_file_key = k.key]
                       IN  IF Truthy(r.dry_run) THEN Return(r1)
                           ELSE [r1 EXCEPT !.pc = "o_upload"])
    /\ UNCHANGED <<store, uploads, timestream, nruns>>

\* new_file_key = create_s3_file_key(parser, new_file_path)
O_Key(p) ==
    /\ run[p].pc = "o_key"
    /\ LET r == run[p]
           k == create_s3_file_key(r.new_file_path)
       IN  Set(p, IF ~k.ok THEN InnerExcept(r, k.exc)
                  ELSE LET r1 == [Step(r, "key") EXCEPT !.new_file_key = k.key]
                       IN  IF Truthy(r.dry_run) THEN Return(r1)
                           ELSE [r1 EXCEPT !.pc = "o_upload"])
    /\ UNCHANGED <<store, uploads, timestream, nruns>>

upload_file_to_s3_Moving(r, outcome) ==
    IF outcome = "ok"
    THEN /\ store' = (store \ {<<r.s3_bucket, r.file_key>>})
                        \cup {<<r.destination_bucket, r.new_file_key>>}
         /\ uploads' = Append(uploads, [bucket |-> r.destination_bucket,
                                        key |-> r.new_file_key,
                                        source |-> r.file_key,
                                        filename |-> r.new_file_path,
                                        entry |-> r.entry])
    ELSE UNCHANGED <<store, uploads>>

\* upload_file_to_s3(s3_client, new_file_path, destination_bucket, new_file_key)
upload_file_to_s3(r, outcome) ==
    IF outcome = "ok"
    THEN /\ store' = store \cup {<<r.destination_bucket, r.new_file_key>>}
         /\ uploads' = Append(uploads, [bucket |-> r.destination_bucket,
                                        key |-> r.new_file_key,
                                        source |-> r.file_key,
                                        filename |-> r.new_file_path,
                                        entry |-> r.entry])
    ELSE UNCHANGED <<store, uploads>>

O_Upload_AlwaysNotify(p) ==
    /\ run[p].pc = "o_upload"
    /\ LET r == run[p] IN
       \E u \in UploadOutcomes :
         /\ upload_file_to_s3(r, u)
         /\ Set(p, IF u = "ok"
                   THEN [Step(r, "upload") EXCEPT !.pc = "o_notify"]
                   ELSE OuterExcept(r, u))
    /\ UNCHANGED <<timestream, nruns>>

O_Upload_IgnoringFailure(p) ==
    /\ run[p].pc = "o_upload"
    /\ LET r == run[p] IN
       \E u \in UploadOutcomes :
         /\ upload_file_to_s3(r, u)
         /\ Set(p, [(IF u = "ok" THEN Step(r, "upload") ELSE r) EXCEPT
                     !.pc = IF r.slack_client THEN "o_notify" ELSE "o_timestream"])
    /\ UNCHANGED <<timestream, nruns>>

\* if not self.dry_run: path = upload_file_to_s3(...)
O_Upload(p) ==
    /\ run[p].pc = "o_upload"
    /\ LET r == run[p] IN
       \E u \in UploadOutcomes :
         /\ upload_file_to_s3(r, u)
         /\ Set(p, IF u = "ok"
                   THEN [Step(r, "upload") EXCEPT
                           !.pc = IF r.slack_client THEN "o_notify" ELSE "o_timestream"]
                   ELSE OuterExcept(r, u))
    /\ UNCHANGED <<timestream, nruns>>

\* if self.slack_client: send_slack_notification(..., alert_type="success", ...)
O_Notify(p) ==
    /\ run[p].pc = "o_notify"
    /\ LET r == run[p] IN
       \E outcomes \in SeqsOfLen(SlackAttempt, r.slack_retries) :
         LET sent == SlackCall(r.slack_retries, outcomes)
             r1 == [r EXCEPT !.slack_sent = sent]
         IN  Set(p, IF sent.raised
                    THEN OuterExcept(Step(r1, "slack_success_raised"), "Exception")
                    ELSE [Step(r1, IF sent.result = "True" THEN "slack_success"
                                   ELSE "slack_success_undelivered")
                            EXCEPT !.pc = "o_timestream"])
    /\ UNCHANGED <<store, uploads, timestream, nruns>>

\* The record log_to_timestream writes for this run.
TimestreamRecord(r) ==
    [action_type |-> "PUT",
     source_bucket |-> r.destination_bucket,
     destination_bucket |-> r.destination_bucket,
     file_key |-> r.file_key,
     new_file_key |-> r.new_file_key]

\* log_to_timestream(...): writes one record, re-raises whatever fails.
O_Timestream(p) ==
    /\ run[p].pc = "o_timestream"
    /\ LET r == run[p] IN
       \E t \in TimestreamOutcomes :
         IF t = "ok"
         THEN /\ timestream' = Append(timestream, TimestreamRecord(r))
              /\ Set(p, Return(Step(r, "timestream")))
         ELSE /\ UNCHANGED timestream
              /\ Set(p, InnerExcept(Step(r, "timestream_failed"), t))
    /\ UNCHANGED <<store, uploads, nruns>>

\* The except clause's notification (alert_type="error"), then raise e.
O_Except(p) ==
    /\ run[p].pc = "o_except"
    /\ LET r == run[p] IN
       \E outcomes \in SeqsOfLen(SlackAttempt, r.slack_retries) :
         LET sent == SlackCall(r.slack_retries, outcomes)
             r1 == [r EXCEPT !.slack_sent = sent]
         IN  Set(p, IF sent.raised
                    THEN Raise(Step(r1, "slack_error_raised"), "Exception")
                    ELSE Raise(Step(r1, IF sent.result = "True" THEN "slack_error"
                                        ELSE "slack_error_undelivered"),
                               r.exc))
    /\ UNCHANGED <<store, uploads, timestream, nruns>>

(***************************** new pipeline ********************************)
\* get_instrument_bucket(instrument, environment)
get_instrument_bucket(instr, environment) ==
    IF environment = "DEVELOPMENT"
    THEN "dev-" \o INSTR_TO_BUCKET_NAME(instr)
    ELSE INSTR_TO_BUCKET_NAME(instr)

_parse_file_IgnoringEnvironment(file_key, environment) ==
    LET parsed_file_key == parse_file_key(file_key)
        science_file == science_filename_parser(parsed_file_key)
    IN  IF ~science_file.ok
        THEN [raised |-> TRUE, exc |-> science_file.exc, value |-> <<>>]
        ELSE IF science_file.instrument \notin INSTR_NAMES
        THEN [raised |-> TRUE, exc |-> "KeyError", value |-> <<>>]
        ELSE [raised |-> FALSE, exc |-> "none",
              value |-> <<parsed_file_key, science_file, science_file.instrument,
                          get_instrument_bucket(science_file.instrument, "PRODUCTION")>>]

\* FileProcessor._parse_file: returns the four values
\* parsed_file_key, science_file, this_instr, destination_bucket.
_parse_file(file_key, environment) ==
    LET parsed_file_key == parse_file_key(file_key)
        science_file == science_filename_parser(parsed_file_key)
    IN  IF ~science_file.ok
        THEN [raised |-> TRUE, exc |-> science_file.exc, value |-> <<>>]
        ELSE IF science_file.instrument \notin INSTR_NAMES
        THEN [raised |-> TRUE, exc |-> "KeyError", value |-> <<>>]
        ELSE [raised |-> FALSE, exc |-> "none",
              value |-> <<parsed_file_key, science_file, science_file.instrument,
                          get_instrument_bucket(science_file.instrument, environment)>>]

\* _process_file: (parsed_file_key, this_instr, destination_bucket) =
\* self._parse_file(...): a tuple of any other length than three is a
\* ValueError of the assignment.
N_Parse(p) ==
    /\ run[p].pc = "n_parse"
    /\ LET r == run[p]
           parsed == _parse_file(r.file_key, r.environment)
       IN  Set(p, IF parsed.raised
                  THEN Raise(IF parsed.exc = "ValueError" THEN Step(r, "parse_failed")
                             ELSE r, parsed.exc)
                  ELSE IF Len(parsed.value) # 3
                       THEN Raise(Step(r, "parse"), "ValueError")
                       ELSE [Step(r, "parse") EXCEPT
                               !.pc = "n_get",
                               !.parsed_file_key = parsed.value[1],
                               !.this_instr = parsed.value[2],
                               !.destination_bucket = parsed.value[3]])
    /\ UNCHANGED <<store, uploads, timestream, nruns>>

\* The value of os.getenv("SDC_AWS_FILE_PATH") when it is set.
SDC_AWS_FILE_PATH == "/path/to/test-file.bin"

\* A static method returns `value`: to its caller when called directly,
\* to _process_file (which goes on at `next`) otherwise.
StaticReturn(r, name, next) ==
    IF r.entry = name THEN [r EXCEPT !.pc = "returned"] ELSE [r EXCEPT !.pc = next]

\* FileProcessor._get_file up to the existence check.
N_Get(p) ==
    /\ run[p].pc = "n_get"
    /\ LET r == run[p] IN
       IF Truthy(r.dry_run)
       THEN Set(p, StaticReturn([Step(r, "get_skipped") EXCEPT !.file_path = None],
                                "_get_file", "n_calibrate"))
       ELSE IF r.file_path_env
       THEN Set(p, StaticReturn([Step(r, "get_local") EXCEPT !.file_path = SDC_AWS_FILE_PATH],
                                "_get_file", "n_calibrate"))
       ELSE \E h \in HeadOutcomes(r.s3_bucket, r.file_key) :
              LET ex == object_exists(h)
                  r1 == Step(r, "head:" \o h)
              IN  Set(p, IF ex.raised THEN Raise(r1, ex.exc)
                         ELSE IF ~(ex.value \/ Truthy(r.dry_run))
                              THEN Raise(r1, "FileNotFoundError")
                              ELSE [r1 EXCEPT !.pc = "n_download"])
    /\ UNCHANGED <<store, uploads, timestream, nruns>>

\* FileProcessor._get_file: file_path = download_file_from_s3(...)
N_Download(p) ==
    /\ run[p].pc = "n_download"
    /\ LET r == run[p] IN
       \E d \in DownloadOutcomes(r.s3_bucket, r.file_key) :
         Set(p, IF d = "ok"
                THEN StaticReturn([Step(r, "download") EXCEPT
                                     !.file_path = download_file_from_s3(r.parsed_file_key)],
                                  "_get_file", "n_calibrate")
                ELSE Raise(r, d))
    /\ UNCHANGED <<store, uploads, timestream, nruns>>

\* FileProcessor._calibrate_file: only a ValueError is caught (and None
\* returned).
N_Calibrate(p) ==
    /\ run[p].pc = "n_calibrate"
    /\ LET r == run[p] IN
       IF r.this_instr \notin INSTR_NAMES
       THEN Set(p, Raise(r, "KeyError"))
       ELSE \E c \in ProcessFileOutcomes(r) :
              LET r0 == Step(r, "calibrate")
                  r1 == IF c.raised THEN Step(r0, "calibrate_failed") ELSE r0
              IN  Set(p, IF c.raised
                         THEN IF c.exc = "ValueError"
                              THEN StaticReturn([r1 EXCEPT !.new_file_path = None,
                                                           !.raised = @ \cup {c.exc}],
                                                "_calibrate_file", "n_put")
                              ELSE Raise(r1, c.exc)
                         ELSE IF c.products = <<>> THEN Raise(r1, "IndexError")
                         ELSE StaticReturn([r1 EXCEPT !.new_file_path = c.products[1]],
                                           "_calibrate_file", "n_put"))
    /\ UNCHANGED <<store, uploads, timestream, nruns>>

ShouldUpload_IgnoringOverride(r) == ~Truthy(r.dry_run)

ShouldUpload_IgnoringDryRun(r) == ~r.file_path_env

\* if not dry_run and not os.getenv("SDC_AWS_FILE_PATH"):
ShouldUpload(r) == ~Truthy(r.dry_run) /\ ~r.file_path_env

\* return new_file_key: to the direct caller, or to _process_file, whose run
\* ends there.
PutReturn(r) ==
    IF r.entry = "_put_file"
    THEN [r EXCEPT !.pc = "returned", !.ret = r.new_file_key]
    ELSE Return(r)

\* FileProcessor._put_file: new_file_key = create_s3_file_key(...), then the
\* choice between uploading and only logging.
N_Put(p) ==
    /\ run[p].pc = "n_put"
    /\ LET r == run[p]
           k == create_s3_file_key(r.new_file_path)
           r1 == [Step(r, "key") EXCEPT !.new_file_key = k.key]
       IN  IF ~k.ok
           THEN Set(p, Raise(r, k.exc))
           ELSE IF ShouldUpload(r)
           THEN Set(p, [r1 EXCEPT !.pc = "n_upload"])
           ELSE Set(p, PutReturn(r1))
    /\ UNCHANGED <<store, uploads, timestream, nruns>>

\* FileProcessor._put_file: upload_file_to_s3(...); return new_file_key
N_Upload(p) ==
    /\ run[p].pc = "n_upload"
    /\ LET r == run[p] IN
       \E u \in UploadOutcomes :
         /\ upload_file_to_s3(r, u)
         /\ Set(p, IF u # "ok" THEN Raise(r, u) ELSE PutReturn(Step(r, "upload")))
    /\ UNCHANGED <<timestream, nruns>>

(***************************** direct callers ******************************)
DryRuns == {"True", "False"}

\* FileProcessor(s3_bucket, file_key, ..., dry_run=...) constructed directly.
Construct(p) ==
    /\ AllIdle
    /\ nruns < MaxRuns
    /\ \E impl \in {"old", "new"}, ev \in S3Events, env \in Environments,
          dry \in DryRuns, slack \in BOOLEAN :
        /\ impl = "new" => ~slack
        /\ impl = "old" => env = "DEVELOPMENT"
        /\ Set(p, [IdleRun EXCEPT !.pc = "init", !.impl = impl, !.entry = "ctor",
                                  !.s3_bucket = ev.bucket, !.file_key = ev.key,
                                  !.nfp = 1, !.environment = env, !.dry_run = dry,
                                  !.slack_token = IF slack THEN SLACK_TOKEN ELSE None,
                                  !.slack_channel = IF slack THEN SLACK_CHANNEL ELSE None,
                                  !.slack_client = slack, !.slack_retries = MaxRetries])
    /\ nruns' = nruns + 1
    /\ UNCHANGED <<store, uploads, timestream>>

\* FileProcessor._get_file(bucket, file_key, parsed_file_key, dry_run)
Call_get_file(p) ==
    /\ AllIdle
    /\ nruns < MaxRuns
    /\ \E ev \in S3Events, dry \in DryRuns, local \in BOOLEAN :
        Set(p, [IdleRun EXCEPT !.pc = "n_get", !.impl = "new", !.entry = "_get_file",
                               !.s3_bucket = ev.bucket, !.file_key = ev.key,
                               !.parsed_file_key = parse_file_key(ev.key),
                               !.dry_run = dry, !.file_path_env = local])
    /\ nruns' = nruns + 1
    /\ UNCHANGED <<store, uploads, timestream>>

\* The static method _calibrate_file(self, instrument, file_path) called on
\* the class with argc positional arguments: it has three parameters, self
\* being an ordinary one, so a call with two arguments (instrument,
\* file_path) is a TypeError for the missing third.
Call_calibrate_file(p) ==
    /\ AllIdle
    /\ nruns < MaxRuns
    /\ \E argc \in {2, 3}, instr \in {"eea", "lyra"}, f \in {F_L0, F_BAD},
          present \in BOOLEAN :
        LET r == [IdleRun EXCEPT !.impl = "new", !.entry = "_calibrate_file",
                                 !.argc = argc,
                                 !.this_instr = instr, !.parsed_file_key = f,
                                 !.file_path = IF present THEN download_file_from_s3(f)
                                               ELSE None]
        IN  Set(p, IF argc # 3 THEN Raise(r, "TypeError")
                   ELSE [r EXCEPT !.pc = "n_calibrate"])
    /\ nruns' = nruns + 1
    /\ UNCHANGED <<store, uploads, timestream>>

\* FileProcessor._put_file(parser, destination_bucket, calibrated_filename, dry_run)
Call_put_file(p) ==
    /\ AllIdle
    /\ nruns < MaxRuns
    /\ \E instr \in {"eea"}, env \in Environments, f \in {F_L0, F_L1, F_BAD},
          dry \in DryRuns, local \in BOOLEAN :
        Set(p, [IdleRun EXCEPT !.pc = "n_put", !.impl = "new", !.entry = "_put_file",
                               !.destination_bucket = get_instrument_bucket(instr, env),
                               !.new_file_path = f,
                               !.dry_run = dry, !.file_path_env = local])
    /\ nruns' = nruns + 1
    /\ UNCHANGED <<store, uploads, timestream>>

\* FileProcessor._parse_file(file_key, environment) called directly.
Call_parse_file(p) ==
    /\ AllIdle
    /\ nruns < MaxRuns
    /\ \E ev \in S3Events, env \in Environments :
         LET parsed == _parse_file(ev.key, env)
             r == [IdleRun EXCEPT !.impl = "new", !.entry = "_parse_file",
                                  !.file_key = ev.key, !.environment = env]
         IN  Set(p, IF parsed.raised THEN Raise(r, parsed.exc)
                    ELSE [r EXCEPT !.pc = "returned", !.ret = parsed.value])
    /\ nruns' = nruns + 1
    /\ UNCHANGED <<store, uploads, timestream>>

\* The descriptors a caller's science_file_parser may return.
Levels == {"l0", "l1", "ql"}
Years == {2023, 2024}
Months == 1..12
Descriptors ==
    {[ok |-> TRUE, instrument |-> "eea", level |-> l, year |-> y, month |-> m] :
        l \in Levels, y \in Years, m \in Months}

\* create_s3_file_key(science_file_parser, old_file_key) called directly,
\* science_file_parser(old_file_key) returning science_file.
Call_create_s3_file_key(p) ==
    /\ AllIdle
    /\ nruns < MaxRuns
    /\ \E science_file \in Descriptors, old_file_key \in {F_L0, F_L1} :
         Set(p, [IdleRun EXCEPT !.pc = "returned", !.impl = "old",
                                !.entry = "create_s3_file_key",
                                !.science_file = science_file,
                                !.new_file_path = old_file_key,
                                !.ret = new_file_key(science_file, old_file_key)])
    /\ nruns' = nruns + 1
    /\ UNCHANGED <<store, uploads, timestream>>

\* send_slack_notification(slack_client, channel, message, alert_type,
\* slack_max_retries, slack_retry_delay) called directly.
Call_send_slack_notification(p) ==
    /\ AllIdle
    /\ nruns < MaxRuns
    /\ \E n \in 0..MaxRetries :
         \E outcomes \in SeqsOfLen(SlackAttempt, n) :
           LET sent == SlackCall(n, outcomes)
               r == [IdleRun EXCEPT !.impl = "old", !.entry = "send_slack_notification",
                                    !.slack_client = TRUE, !.slack_retries = n,
                                    !.slack_sent = sent]
           IN  Set(p, IF sent.raised THEN Raise(r, "Exception")
                      ELSE [r EXCEPT !.pc = "returned", !.ret = sent.result])
    /\ nruns' = nruns + 1
    /\ UNCHANGED <<store, uploads, timestream>>

\* object_exists(s3_client, bucket, file_key) called directly.
Call_object_exists(p) ==
    /\ AllIdle
    /\ nruns < MaxRuns
    /\ \E ev \in S3Events :
         \E h \in HeadOutcomes(ev.bucket, ev.key) :
           LET ex == object_exists(h)
               r == Step([IdleRun EXCEPT !.impl = "old", !.entry = "object_exists",
                                         !.s3_bucket = ev.bucket, !.file_key = ev.key],
                         "head:" \o h)
           IN  Set(p, IF ex.raised THEN Raise(r, ex.exc)
                      ELSE [r EXCEPT !.pc = "returned",
                                     !.ret = IF ex.value THEN "True" ELSE "False"])
    /\ nruns' = nruns + 1
    /\ UNCHANGED <<store, uploads, timestream>>

(***************************** specification *******************************)
Next ==
    \E p \in SeqProcs :
        \/ Invoke(p)
        \/ Construct(p)
        \/ Call_get_file(p)
        \/ Call_calibrate_file(p)
        \/ Call_put_file(p) \/ Call_send_slack_notification(p)
        \/ Call_create_s3_file_key(p) \/ Call_parse_file(p)
        \/ Call_object_exists(p)
        \/ H_Records(p)
        \/ H_Loop(p)
        \/ FP_Init(p)
        \/ O_Exists(p)
        \/ O_Download(p)
        \/ O_Parse(p)
        \/ O_Calibrate(p)
        \/ O_Key(p)
        \/ O_Upload(p)
        \/ O_Notify(p)
        \/ O_Timestream(p)
        \/ O_Except(p)
        \/ N_Parse(p)
        \/ N_Get(p)
        \/ N_Download(p)
        \/ N_Calibrate(p)
        \/ N_Put(p)
        \/ N_Upload(p)
        \/ Collect(p)

Spec == Init /\ [][Next]_vars

\* Two Lambda instances at once: each constructs FileProcessor(s3_bucket,
\* file_key) for a notification about the same source object. They share
\* nothing but the buckets and the Timestream table.
ConcStart(p) ==
    /\ run[p].pc = "idle"
    /\ nruns < MaxRuns
    /\ \E impl \in {"old", "new"}, slack_token \in {None, SLACK_TOKEN},
          slack_channel \in {None, SLACK_CHANNEL} :
        LET slack == get_slack_client(slack_token, slack_channel) IN
        /\ impl = "new" => (slack_token = None /\ slack_channel = None)
        /\ Set(p, [IdleRun EXCEPT !.pc = "init", !.impl = impl, !.entry = "ctor",
                                  !.s3_bucket = S3Event(F_L0).bucket,
                                  !.file_key = S3Event(F_L0).key,
                                  !.nfp = 1, !.environment = "DEVELOPMENT",
                                  !.slack_token = slack_token,
                                  !.slack_channel = slack_channel,
                                  !.slack_client = slack,
                                  !.slack_retries = IF slack THEN MaxRetries ELSE 0])
    /\ nruns' = nruns + 1
    /\ UNCHANGED <<store, uploads, timestream>>

\* The steps of the two instances interleave in any order.
ConcNext ==
    \E p \in Procs :
        \/ ConcStart(p)
        \/ FP_Init(p)
        \/ O_Exists(p)
        \/ O_Download(p)
        \/ O_Parse(p)
        \/ O_Calibrate(p)
        \/ O_Key(p)
        \/ O_Upload(p)
        \/ O_Notify(p)
        \/ O_Timestream(p)
        \/ O_Except(p)
        \/ N_Parse(p)

ConcSpec == Init /\ [][ConcNext]_vars

\* The objects other clients of the buckets put and delete between runs:
\* the l0 source object and the l1 object at its destination key.
ChangingObjects ==
    {SourceObject(F_L0), <<INSTR_TO_BUCKET_NAME("eea"), <<"l1", "2023", "02", F_L1>>>>}

StorageChange ==
    /\ \E o \in ChangingObjects :
          store' = IF o \in store THEN store \ {o} ELSE store \cup {o}
    /\ UNCHANGED <<uploads, timestream, nruns, run>>

\* A dry run is started for the request on the l0 source object: the
\* constructor with dry_run=True, or _get_file / _put_file with dry_run=True
\* (_put_file for the calibrated filename of that source).
DryStart(p) ==
    /\ run[p].pc = "idle"
    /\ nruns < MaxRuns
    /\ \E entry \in {"ctor", "_get_file", "_put_file"}, impl \in {"old", "new"} :
        /\ entry # "ctor" => impl = "new"
        /\ LET r == [IdleRun EXCEPT !.impl = impl, !.entry = entry,
                                    !.dry_run = "True"]
           IN  Set(p, CASE entry = "ctor" ->
                             [r EXCEPT !.pc = "init",
                                       !.s3_bucket = S3Event(F_L0).bucket,
                                       !.file_key = S3Event(F_L0).key,
                                       !.nfp = 1, !.environment = "PRODUCTION"]
                        [] entry = "_get_file" ->
                             [r EXCEPT !.pc = "n_get",
                                       !.s3_bucket = S3Event(F_L0).bucket,
                                       !.file_key = S3Event(F_L0).key,
                                       !.parsed_file_key = F_L0]
                        [] OTHER ->
                             [r EXCEPT !.pc = "n_put",
                                       !.destination_bucket =
                                           get_instrument_bucket("eea", "PRODUCTION"),
                                       !.new_file_path = F_L1])
    /\ nruns' = nruns + 1
    /\ UNCHANGED <<store, uploads, timestream>>

\* Dry runs, one after or beside the other, while the buckets' contents
\* change.
DryNext ==
    \/ StorageChange
    \/ \E p \in Procs :
        \/ DryStart(p)
        \/ FP_Init(p)
        \/ O_Exists(p)
        \/ O_Parse(p)
        \/ O_Calibrate(p)
        \/ N_Parse(p)
        \/ N_Get(p)
        \/ N_Put(p)

DrySpec == Init /\ [][DryNext]_vars

(***************************** properties **********************************)

Finished(r) == r.pc \in {"returned", "raised"}

Pipeline(r) == r.entry \in {"handler", "ctor"}

\* C1: in a run that is not a dry run, when the destination key already
\* exists in the destination bucket at the publish step, the run writes
\* nothing to the destination bucket.
C1_IdempotentPublish ==
    [][\A p \in Procs :
         (/\ run[p].pc \in {"o_upload", "n_upload"}
          /\ ~Truthy(run[p].dry_run)
          /\ <<run[p].destination_bucket, run[p].new_file_key>> \in store)
         => (uploads' = uploads /\ store' = store)]_vars

\* C2: over any sequence of non-overlapping pipeline runs on the same source
\* object, each destination key receives at most one write.
C2_AtMostOneWritePerKey ==
    \A i, j \in DOMAIN uploads :
        (/\ uploads[i].entry \in {"handler", "ctor"}
         /\ uploads[j].entry \in {"handler", "ctor"}
         /\ uploads[i].source = uploads[j].source
         /\ uploads[i].bucket = uploads[j].bucket
         /\ uploads[i].key = uploads[j].key)
        => i = j

\* C3: a dry run fetches nothing (its file handle stays null) and writes
\* nothing, and the key _put_file returns on a dry run is the key a live run
\* returns for the same calibrated filename.
C3_DryRunPurity ==
    \A p \in Procs :
        LET r == run[p] IN
        Truthy(r.dry_run) =>
            /\ r.file_path = None
            /\ Range(r.steps) \cap {"download", "get_local", "upload"} = {}
            /\ r.pc \notin {"o_download", "n_download", "o_upload", "n_upload"}
            /\ (r.entry = "_put_file" /\ r.pc = "returned")
                  => /\ r.ret # NoKey /\ r.ret = r.new_file_key
                     /\ \A i \in DOMAIN uploads :
                           uploads[i].filename = r.new_file_path
                              => uploads[i].key = r.ret

\* C3 witness: a dry-run _put_file has returned a key for a calibrated
\* filename that a live _put_file uploaded before, and nothing else was
\* uploaded.
C3_Witness ==
    \E p \in Procs :
        /\ run[p].entry = "_put_file" /\ run[p].pc = "returned"
        /\ Truthy(run[p].dry_run)
        /\ run[p].ret = <<"l1", "2023", "02", F_L1>>
        /\ Len(uploads) = 1
        /\ uploads[1].entry = "_put_file"
        /\ uploads[1].filename = run[p].new_file_path

\* C4: no run with dryRun true reaches a state in which calibration has been
\* dispatched.
C4_NoCalibrationOnDryRun ==
    \A p \in Procs :
        Truthy(run[p].dry_run) => "calibrate" \notin Range(run[p].steps)

\* C5: when the source object is absent and the run is not a dry run, the
\* run fails with a not-found error, the handler returns 500, calibration is
\* never invoked and nothing is written.
C5_MissingSourceIsHardFailure ==
    \A p \in Procs :
        (/\ Finished(run[p])
         /\ ~Truthy(run[p].dry_run)
         /\ "head:ClientError404" \in Range(run[p].steps))
        => /\ run[p].exc = "FileNotFoundError"
           /\ run[p].entry = "handler" => run[p].response.statusCode = 500
           /\ Range(run[p].steps) \cap {"calibrate", "upload"} = {}

\* C6: the handler returns 500 with a body "Error Processing File: ..."
\* whenever any step raised, and 200 with the success body exactly when the
\* pipeline run completed without a failure.
C6_ReturnContract ==
    \A p \in Procs :
        (run[p].entry = "handler" /\ run[p].pc = "returned")
        => /\ run[p].raised # {}
                => /\ run[p].response.statusCode = 500
                   /\ \E e \in run[p].raised :
                        run[p].response.body = "\"Error Processing File: " \o e \o "\""
           /\ (run[p].raised = {} /\ run[p].nfp >= 1)
                => run[p].response.statusCode = 200

C8_BadEnvelope ==
    \A p \in Procs :
        LET r == run[p]
            unextractable == r.outer = 0
                             \/ (Len(r.records) >= 1 /\ r.records[1] = MalformedEvent)
        IN  (r.entry = "handler" /\ unextractable)
            => /\ r.nfp = 0
               /\ r.steps = <<>>
               /\ r.pc \in {"h_records", "h_loop", "returned"}
               /\ r.pc = "returned"
                    => /\ r.response.statusCode = 500
                       /\ r.response.body \in
                            {"\"Error Processing File: " \o e \o "\"" :
                                e \in {"IndexError", "KeyError"}}

\* C8 witness: a handler has returned from an envelope with no outer records.
C8_Witness ==
    \E p \in Procs :
        /\ run[p].entry = "handler" /\ run[p].outer = 0
        /\ run[p].pc = "returned"
        /\ run[p].response.statusCode = 500
        /\ store # {}

ErrorNotifications(r) ==
    Cardinality({i \in DOMAIN r.steps :
                    r.steps[i] \in {"slack_error", "slack_error_undelivered"}})

\* C9: whenever a step of the pipeline raises, the run ends failed with that
\* error propagated, and one error notification is emitted when notification
\* is configured.
C9_FailurePropagation ==
    \A p \in Procs :
        LET r == run[p] IN
        (Pipeline(r) /\ Finished(r) /\ "init" \in Range(r.steps) /\ r.raised # {})
        => /\ r.exc # "none"
           /\ r.exc \notin {"UnboundLocalError"}
           /\ r.slack_client => ErrorNotifications(r) = 1

\* C10: if appending the audit record fails after a successful publish, the
\* run is not turned into a failure and the artifact stays in the bucket.
C10_AuditBestEffort ==
    \A p \in Procs :
        LET r == run[p] IN
        (Finished(r) /\ "timestream_failed" \in Range(r.steps))
        => /\ r.exc = "none"
           /\ r.entry = "handler" => r.response.statusCode = 200
           /\ <<r.destination_bucket, r.new_file_key>> \in store

\* C11: whichever way delivery of the success notification fails (every
\* attempt failing, or the transport raising any error), the run ends as it
\* would have with the notification delivered: no error, the handler
\* reports 200, the artifact is in the destination bucket.
C11_NotificationNeverFailsRun ==
    \A p \in Procs :
        LET r == run[p] IN
        (/\ Pipeline(r) /\ Finished(r)
         /\ Range(r.steps) \cap {"slack_success_undelivered", "slack_success_raised"} # {})
        => /\ r.exc = "none"
           /\ r.entry = "handler" => r.response.statusCode = 200
           /\ <<r.destination_bucket, r.new_file_key>> \in store

\* C12: a call of send_slack_notification with budget n makes at most n
\* attempts, stops at the first delivered one and returns True, sleeps once
\* between consecutive attempts and never after the last, and when every
\* attempt fails returns a non-success value without raising.
C12_BoundedRetry ==
    \A p \in Procs :
        LET r == run[p]
            c == r.slack_sent
            n == r.slack_retries
        IN  c.called =>
            /\ c.attempts <= n
            /\ c.result = "True"
                 <=> (c.attempts >= 1 /\ c.outcomes[c.attempts] = "ok")
            /\ \A j \in 1..(c.attempts - 1) : c.outcomes[j] # "ok"
            /\ c.sleeps = (IF c.attempts = 0 THEN 0 ELSE c.attempts - 1)
            /\ (\A j \in 1..n : c.outcomes[j] # "ok")
                 => (~c.raised /\ c.result = None /\ c.attempts = n)

\* C13: an audit record is appended only by a run that is not a dry run,
\* that has pushed its artifact (the push is the latest upload and the
\* object is in the destination bucket) and that has appended none before;
\* one record is appended at a time.
C13_AuditDiscipline ==
    [][timestream' # timestream =>
         \E p \in Procs :
           LET r == run[p] IN
           /\ timestream' = Append(timestream, TimestreamRecord(r))
           /\ r.pc = "o_timestream"
           /\ ~Truthy(r.dry_run)
           /\ "upload" \in Range(r.steps)
           /\ "timestream" \notin Range(r.steps)
           /\ uploads # <<>>
           /\ uploads[Len(uploads)].key = r.new_file_key
           /\ uploads[Len(uploads)].source = r.file_key
           /\ <<r.destination_bucket, r.new_file_key>> \in store]_vars

\* C13 witness: a run has pushed its artifact and appended its audit record.
C13_Witness ==
    \E p \in Procs :
        /\ run[p].pc = "returned"
        /\ "timestream" \in Range(run[p].steps)
        /\ Len(timestream) = 1
        /\ timestream[1].new_file_key = run[p].new_file_key
        /\ Len(uploads) = 1

\* C14: when calibration fails the run is aborted: it ends with an error,
\* the handler reports 500, and no destination key, push, success
\* notification or audit record follows.
C14_CalibrationFailureIsFatal ==
    \A p \in Procs :
        LET r == run[p] IN
        (Pipeline(r) /\ Finished(r) /\ "calibrate_failed" \in Range(r.steps))
        => /\ r.exc # "none"
           /\ r.entry = "handler" => r.response.statusCode = 500
           /\ r.new_file_key = NoKey
           /\ Range(r.steps) \cap {"key", "upload", "slack_success", "timestream"} = {}

\* C15: the destination key is built from the calibrated file: its last
\* segment is the calibrated filename and its level is the calibrated
\* file's; the source ..._EEA_l0_2023042... calibrated to
\* hermes_eea_l1_20230211T000000_v1.0.0.cdf is keyed and published under
\* l1/2023/02/hermes_eea_l1_20230211T000000_v1.0.0.cdf.
C15_KeyFromCalibratedFile ==
    /\ \A p \in Procs :
         LET r == run[p] IN
         r.new_file_key # NoKey =>
            /\ r.new_file_path \notin {Unbound, None}
            /\ r.new_file_key[4] = r.new_file_path
            /\ r.new_file_key[1] = science_filename_parser(r.new_file_path).level
            /\ (Pipeline(r) /\ r.parsed_file_key = F_L0)
                  => r.new_file_key = <<"l1", "2023", "02", F_L1>>
            /\ (Pipeline(r) /\ r.parsed_file_key = F_M0)
                  => r.new_file_key = <<"l1", "2023", "12", F_M1>>
    /\ \A i \in DOMAIN uploads :
         /\ uploads[i].key[4] = uploads[i].filename
         /\ (uploads[i].source # NoKey /\ uploads[i].source[4] = F_L0)
               => uploads[i].key = <<"l1", "2023", "02", F_L1>>

\* C15 witness: a run on the l0 source has published the l1 product.
C15_Witness ==
    \E p \in Procs :
        /\ Pipeline(run[p]) /\ run[p].pc = "returned"
        /\ run[p].parsed_file_key = F_L0
        /\ run[p].new_file_path = F_L1
        /\ Len(uploads) = 1
        /\ uploads[1].key = <<"l1", "2023", "02", F_L1>>
        /\ uploads[1].source = <<"l0", "2023", "02", F_L0>>

TwoDigits(m) == Digits[(m \div 10) + 1] \o Digits[(m % 10) + 1]

FourDigits(y) == TwoDigits(y \div 100) \o TwoDigits(y % 100)

\* C16: for a descriptor with level L, year Y and month M in 1..12 and a
\* filename F the key built is L/Y/MM/F: four segments, Y the four-digit
\* year, MM the month in two characters (a leading zero below 10).
C16_KeyFormat ==
    \A p \in Procs :
        LET r == run[p]
            d == r.science_file
        IN  (r.entry = "create_s3_file_key" /\ r.pc = "returned")
            => /\ Len(r.ret) = 4
               /\ r.ret[1] = d.level
               /\ r.ret[2] = FourDigits(d.year) /\ Len(r.ret[2]) = 4
               /\ r.ret[3] = TwoDigits(d.month) /\ Len(r.ret[3]) = 2
               /\ r.ret[4] = r.new_file_path

\* C16 witness: a key was built for a quicklook file of September 2024.
C16_Witness ==
    \E p \in Procs :
        /\ run[p].entry = "create_s3_file_key" /\ run[p].pc = "returned"
        /\ run[p].science_file.month = 9
        /\ run[p].ret = <<"ql", "2024", "09", F_L1>>

\* C17: _parse_file resolves, for a file of a registered instrument, the
\* same instrument in both environments, and in DEVELOPMENT the bucket
\* that is "dev-" followed by the PRODUCTION bucket of that instrument.
C17_EnvironmentPrefixOnly ==
    \A p \in Procs :
        LET r == run[p]
            f == parse_file_key(r.file_key)
            instr == CASE f = F_L0 -> "eea" [] f = F_M0 -> "merit" [] OTHER -> "none"
        IN  (r.entry = "_parse_file" /\ r.pc = "returned")
            => /\ instr \in INSTR_NAMES
               /\ r.ret[3] = instr
               /\ r.environment = "PRODUCTION" => r.ret[4] = "hermes-" \o instr
               /\ r.environment = "DEVELOPMENT" => r.ret[4] = "dev-" \o "hermes-" \o instr
               /\ INSTR_TO_PKG(r.ret[3]) = "hermes_" \o instr

\* C17 witness: _parse_file has returned the DEVELOPMENT bucket of eea.
C17_Witness ==
    \E p \in Procs :
        /\ run[p].entry = "_parse_file" /\ run[p].pc = "returned"
        /\ run[p].environment = "DEVELOPMENT"
        /\ run[p].ret[3] = "eea"
        /\ run[p].ret[4] = "dev-hermes-eea"

\* C19: _parse_file returns three results (filename segment, instrument,
\* destination bucket), and a pipeline run whose key parsed has bound them
\* and gone on to the fetch step.
C19_ParseReturnsThree ==
    \A p \in Procs :
        LET r == run[p] IN
        /\ (r.entry = "_parse_file" /\ r.pc = "returned")
              => /\ Len(r.ret) = 3
                 /\ r.ret[1] = parse_file_key(r.file_key)
                 /\ r.ret[2] \in INSTR_NAMES
                 /\ r.ret[3] = get_instrument_bucket(r.ret[2], r.environment)
        /\ (Pipeline(r) /\ r.impl = "new" /\ "parse" \in Range(r.steps))
              => (r.parsed_file_key # Unbound /\ "ValueError" \notin r.raised)

\* C18: a run on a filename whose instrument has no registered mapping
\* fails; no bucket is chosen for it and it writes no object.
C18_UnregisteredInstrumentFails ==
    \A p \in Procs :
        LET r == run[p] IN
        (Pipeline(r) /\ r.file_key # NoKey /\ parse_file_key(r.file_key) = F_UNK)
        => /\ r.destination_bucket = Unbound
           /\ "upload" \notin Range(r.steps)
           /\ \A i \in DOMAIN uploads : uploads[i].source # r.file_key
           /\ Finished(r) => r.exc # "none"

\* C20: when the filename does not parse, the run ends failed and by then
\* nothing was fetched from the source bucket, nothing written to the
\* destination bucket and no audit record appended.
C20_ParseFailureNoSideEffects ==
    \A p \in Procs :
        LET r == run[p] IN
        (Pipeline(r) /\ "parse_failed" \in Range(r.steps))
        => /\ Finished(r) /\ r.exc # "none"
           /\ r.file_path = None
           /\ Range(r.steps) \cap {"download", "upload", "timestream"} = {}

\* C21: with the override local file path configured and the run not a dry
\* run, _get_file returns that path with no existence check and no download,
\* and _put_file pushes nothing and returns the destination key of the
\* calibrated filename.
C21_LocalOverrideBypassesStorage ==
    \A p \in Procs :
        LET r == run[p] IN
        (r.file_path_env /\ ~Truthy(r.dry_run)) =>
            /\ r.pc \notin {"n_download", "n_upload"}
            /\ \A i \in DOMAIN r.steps :
                  r.steps[i] \in {"get_local", "key", "calibrate", "calibrate_failed"}
            /\ (r.entry = "_get_file" /\ Finished(r))
                  => (r.pc = "returned" /\ r.file_path = SDC_AWS_FILE_PATH
                      /\ r.steps = <<"get_local">>)
            /\ (r.entry = "_put_file" /\ r.pc = "returned")
                  => /\ r.ret # NoKey
                     /\ r.ret = create_s3_file_key(r.new_file_path).key
                     /\ r.steps = <<"key">>
            /\ (r.entry = "_put_file" /\ r.pc = "raised")
                  => ~create_s3_file_key(r.new_file_path).ok

\* C21 witness: a live _put_file under the override has returned the key of
\* the l0 file of test_with_sdc_aws_file_path_set with nothing uploaded.
C21_Witness ==
    \E p \in Procs :
        /\ run[p].entry = "_put_file" /\ run[p].pc = "returned"
        /\ run[p].file_path_env /\ ~Truthy(run[p].dry_run)
        /\ run[p].ret = <<"l0", "2023", "02", F_L0>>
        /\ uploads = <<>>

\* C22: concurrent runs on the same source object need no coordination:
\* the runs that end without error built the same destination key, and a
\* run that finds its destination key already in the destination bucket
\* once it has built it does not go on to write (only runs that both found
\* the key absent may both write).
C22_ConcurrentRunsSafe ==
    /\ [](\A p, q \in Procs :
            (/\ Finished(run[p]) /\ Finished(run[q])
             /\ run[p].new_file_key # NoKey /\ run[q].new_file_key # NoKey)
            => run[p].new_file_key = run[q].new_file_key)
    /\ [][\A p \in Procs :
            LET r == run[p]
                k == create_s3_file_key(r.new_file_path)
            IN  (/\ r.pc = "o_key"
                 /\ k.ok
                 /\ <<r.destination_bucket, k.key>> \in store)
                => run'[p].pc # "o_upload"]_vars

SlackSteps ==
    {"slack_success", "slack_success_undelivered", "slack_success_raised",
     "slack_error", "slack_error_undelivered", "slack_error_raised"}

NotSlackStep(x) == x \notin SlackSteps

SuccessNotifications(r) ==
    Cardinality({i \in DOMAIN r.steps :
                    r.steps[i] \in {"slack_success", "slack_success_undelivered",
                                    "slack_success_raised"}})

Configured(r) == r.slack_token # None /\ r.slack_channel # None

Active(r) == r.pc \notin {"idle", "returned", "raised"}

\* C25: every handler invocation runs to completion whatever the envelope
\* and the collaborators do: while it has not ended a step can be taken (no
\* step waits), its loops are bounded (the record loop by the number of
\* records, the notification loop by the retry budget), and when it has
\* ended it has returned a response, 200 (DONE) or 500 (FAILED).
C25_RunsToCompletion ==
    \A p \in Procs :
        LET r == run[p] IN
        r.entry = "handler" =>
            /\ Active(r) => ENABLED Next
            /\ r.idx <= Len(r.records) + 1
            /\ r.slack_sent.attempts <= r.slack_retries
            /\ r.pc # "raised"
            /\ r.pc = "returned" => r.response.statusCode \in {200, 500}

\* A live pipeline run that went through to its last step.
Successful(r) ==
    /\ Pipeline(r) /\ ~Truthy(r.dry_run)
    /\ r.steps # <<>>
    /\ \/ (r.impl = "old" /\ r.steps[Len(r.steps)] = "timestream")
       \/ (r.impl = "new" /\ r.steps[Len(r.steps)] = "upload")

NotInitStep(x) == x # "init"

AuditNotifySteps == {"slack_success", "slack_success_undelivered", "timestream"}

\* C26: in every successful live run the steps occur once each, in the
\* order parse, existence check of the source, fetch, calibrate, build the
\* destination key, push, and then audit/notify; the download comes after
\* an existence check that answered true and the push after calibration.
C26_StepOrder ==
    \A p \in Procs :
        LET r == run[p]
            s == SelectSeq(r.steps, NotInitStep)
        IN  Successful(r) =>
            /\ Len(s) >= 6
            /\ SubSeq(s, 1, 6) = <<"parse", "head:ok", "download", "calibrate", "key", "upload">>
            /\ \A i \in 7..Len(s) :
                  /\ s[i] \in AuditNotifySteps
                  /\ \A j \in 7..Len(s) : s[i] = s[j] => i = j

Calibrations(r) ==
    Cardinality({i \in DOMAIN r.steps : r.steps[i] = "calibrate"})

\* C27: calibration is dispatched at most once per run: once process_file
\* has been called for a run, whether it returned or failed, the run is
\* never again at the calibration step, and a failed calibration is the
\* run's only one.
C27_NoCalibrationRetry ==
    \A p \in Procs :
        LET r == run[p] IN
        /\ Calibrations(r) <= 1
        /\ "calibrate" \in Range(r.steps) => r.pc \notin {"o_calibrate", "n_calibrate"}
        /\ "calibrate_failed" \in Range(r.steps)
              => (Calibrations(r) = 1 /\ r.steps[Len(r.steps)] # "calibrate")

\* C27 witness: a pipeline run whose calibration failed has ended with that
\* one calibration attempt.
C27_Witness ==
    \E p \in Procs :
        /\ Pipeline(run[p]) /\ Finished(run[p])
        /\ "calibrate_failed" \in Range(run[p].steps)
        /\ Calibrations(run[p]) = 1

Pushes(r) ==
    Cardinality({i \in DOMAIN r.steps : r.steps[i] = "upload"})

\* C28: when process_file returns several artifacts only the first is used:
\* the run's calibrated filename is the first artifact's, the destination
\* key is built from it, the run pushes at most that one object, and no
\* other artifact is ever uploaded or present in a bucket.
C28_OnlyFirstArtifact ==
    /\ \A p \in Procs :
         LET r == run[p]
             products == CalibrationProducts(r.parsed_file_key)
         IN  (/\ r.entry \in {"handler", "ctor", "_calibrate_file"}
              /\ Len(products) > 1
              /\ "calibrate" \in Range(r.steps)
              /\ r.new_file_path \notin {Unbound, None})
             => /\ r.new_file_path = products[1]
                /\ r.new_file_key # NoKey => r.new_file_key = create_s3_file_key(products[1]).key
                /\ Pushes(r) <= 1
    /\ \A i \in DOMAIN uploads :
         LET products == IF uploads[i].source = NoKey THEN <<>>
                         ELSE CalibrationProducts(parse_file_key(uploads[i].source))
         IN  Len(products) > 1
             => /\ uploads[i].filename = products[1]
                /\ uploads[i].key = create_s3_file_key(products[1]).key
                /\ \A j \in 2..Len(products) :
                      /\ uploads[i].key[4] # products[j]
                      /\ \A o \in store : o[2][4] # products[j]

\* C28 witness: a run on the l0 source, whose calibration yields the l1 and
\* the quicklook file, has pushed the l1 file and ended; it is the only
\* upload.
C28_Witness ==
    \E p \in Procs :
        /\ Pipeline(run[p]) /\ Finished(run[p])
        /\ CalibrationProducts(run[p].parsed_file_key) = <<F_L1, F_QL>>
        /\ Pushes(run[p]) = 1
        /\ Len(uploads) = 1
        /\ uploads[1].filename = F_L1
        /\ \A o \in store : o[2][4] # F_QL

\* C29: _calibrate_file, called with an instrument identifier and an input
\* path, does not raise: it returns the calibrated filename when calibration
\* succeeds and None when calibration fails on that input.
C29_CalibrateReturnsNoneOnFailure ==
    \A p \in Procs :
        LET r == run[p] IN
        (r.entry = "_calibrate_file" /\ r.this_instr \in INSTR_NAMES /\ Finished(r))
        => /\ r.pc = "returned"
           /\ "calibrate" \in Range(r.steps)
           /\ "calibrate_failed" \in Range(r.steps) => r.new_file_path = None
           /\ "calibrate_failed" \notin Range(r.steps)
                 => r.new_file_path = CalibrationProducts(r.parsed_file_key)[1]

\* C30: with LAMBDA_ENVIRONMENT not set the handler processes the file as
\* DEVELOPMENT: the destination bucket it resolves, and so any bucket it
\* writes to, carries the "dev-" prefix, never the unprefixed production
\* name.
C30_DefaultEnvironmentIsDevelopment ==
    \A p \in Procs :
        LET r == run[p] IN
        (r.entry = "handler" /\ r.LAMBDA_ENVIRONMENT = None)
        => /\ r.impl = "new" => r.environment = "DEVELOPMENT"
           /\ r.destination_bucket \in
                 {Unbound} \cup {"dev-" \o INSTR_TO_BUCKET_NAME(i) : i \in INSTR_NAMES}
           /\ \A i \in DOMAIN uploads :
                 (uploads[i].source = r.file_key /\ "upload" \in Range(r.steps))
                 => uploads[i].bucket \notin {INSTR_TO_BUCKET_NAME(j) : j \in INSTR_NAMES}

\* C31: a run never emits both a success and an error notification: once
\* the success notification for the published artifact has been sent, the
\* run sends no error notification and does not end failed.
C31_SuccessThenNoFailure ==
    \A p \in Procs :
        LET r == run[p] IN
        (Pipeline(r) /\ "slack_success" \in Range(r.steps))
        => /\ Range(r.steps) \cap {"slack_error", "slack_error_undelivered",
                                   "slack_error_raised"} = {}
           /\ r.pc # "o_except"
           /\ Finished(r) => (r.exc = "none" /\ r.pc = "returned")
           /\ (r.entry = "handler" /\ r.pc = "returned")
                 => r.response.statusCode = 200

\* C32: the failure path does not fail differently: whatever step failed,
\* in particular one before a destination bucket or a calibrated filename
\* exists, the error notification's message reads only bound values, so no
\* UnboundLocalError arises, and the error that leaves the run (and that
\* the handler reports) is the failed step's.
C32_FailurePathReadsBoundValues ==
    \A p \in Procs :
        LET r == run[p] IN
        (Pipeline(r) /\ r.slack_client /\ r.raised # {})
        => /\ "UnboundLocalError" \notin r.raised
           /\ r.pc = "o_except"
                 => (r.new_file_path # Unbound /\ r.destination_bucket # Unbound)
           /\ (r.pc = "raised" /\ "slack_error_raised" \notin Range(r.steps))
                 => r.raised = {r.exc}
           /\ (r.entry = "handler" /\ r.pc = "returned"
                 /\ r.response.statusCode = 500)
                 => r.response # Response500("UnboundLocalError")

\* C33: the audit record a run appends after its publish names the bucket
\* the source object was fetched from as source bucket, the resolved
\* destination bucket as destination bucket, the source key and the new
\* destination key.
C33_AuditRecordContent ==
    \A p \in Procs :
        LET r == run[p] IN
        (Pipeline(r) /\ "timestream" \in Range(r.steps))
        => /\ timestream # <<>>
           /\ LET a == timestream[Len(timestream)] IN
              /\ a.action_type = "PUT"
              /\ a.source_bucket = r.s3_bucket
              /\ a.destination_bucket = r.destination_bucket
              /\ a.file_key = r.file_key
              /\ a.new_file_key = r.new_file_key

\* C34: the pipeline only adds to storage: no step removes an object, an
\* upload adds exactly the object it names, a run's artifact is never put at
\* the source object's own bucket and key (also when destination and source
\* bucket are the same), and the artifact a run has pushed is in the bucket
\* for the rest of the run, whatever fails afterwards.
C34_StorageOnlyGrows ==
    /\ [][/\ store \subseteq store'
          /\ uploads' # uploads
                => LET u == uploads'[Len(uploads')] IN
                   /\ uploads' = Append(uploads, u)
                   /\ store' = store \cup {<<u.bucket, u.key>>}]_vars
    /\ [](\A p \in Procs :
            LET r == run[p] IN
            (Pipeline(r) /\ "upload" \in Range(r.steps))
            => /\ <<r.destination_bucket, r.new_file_key>> \in store
               /\ <<r.destination_bucket, r.new_file_key>> # <<r.s3_bucket, r.file_key>>
               /\ <<r.s3_bucket, r.file_key>> \in store)

\* C34 witness: a run whose destination bucket is its source bucket has
\* pushed its artifact and then failed at the audit write; the artifact and
\* the source object are both in the bucket.
C34_Witness ==
    \E p \in Procs :
        /\ Pipeline(run[p]) /\ Finished(run[p])
        /\ run[p].exc # "none"
        /\ "timestream_failed" \in Range(run[p].steps)
        /\ run[p].destination_bucket = run[p].s3_bucket
        /\ <<run[p].destination_bucket, run[p].new_file_key>> \in store
        /\ <<run[p].s3_bucket, run[p].file_key>> \in store

\* C35: for every trigger envelope, one whose inner list of records is
\* empty included, the handler returns a well-formed response: statusCode
\* 200 or 500 and a body.
C35_WellFormedResponse ==
    \A p \in Procs :
        LET r == run[p] IN
        (r.entry = "handler" /\ r.pc = "returned")
        => /\ r.response # NoneResponse
           /\ r.response.statusCode \in {200, 500}
           /\ r.response.body \notin {None, Unbound}
           /\ (r.outer = 1 /\ r.records = <<>>) => r.response = Response200(r.impl)

HeadAnswers == {"head:ok", "head:ClientError404", "head:ClientError500"}

NotHeadStep(x) == x \notin HeadAnswers

\* C36: a dry run's result does not depend on what the buckets hold: two
\* dry runs for the same request (same entry point, key and calibrated
\* filename), the calibration capability behaving the same where both call
\* it and no request failing at transport level, take the same steps and end with
\* the same outcome, the same error and the same destination key, whether
\* or not the source object or the destination key was there.
C36_DryRunIgnoresStorage ==
    \A p, q \in Procs :
        LET r == run[p]
            c == run[q]
        IN  (/\ Truthy(r.dry_run) /\ Truthy(c.dry_run)
             /\ Finished(r) /\ Finished(c)
             /\ r.impl = c.impl /\ r.entry = c.entry
             /\ r.file_key = c.file_key
             /\ r.raised \cap {"EndpointConnectionError", "NoRegionError"} = {}
             /\ c.raised \cap {"EndpointConnectionError", "NoRegionError"} = {}
             /\ ("calibrate" \in Range(r.steps) /\ "calibrate" \in Range(c.steps))
                   => (r.raised \cap {"ValueError", "Exception", "IndexError"})
                         = (c.raised \cap {"ValueError", "Exception", "IndexError"}))
            => /\ r.pc = c.pc /\ r.exc = c.exc
               /\ r.new_file_key = c.new_file_key /\ r.ret = c.ret
               /\ r.file_path = None /\ c.file_path = None
               /\ SelectSeq(r.steps, NotHeadStep) = SelectSeq(c.steps, NotHeadStep)

\* C36 witness: two dry runs of the constructor on the same key have ended
\* alike, one having found the source object present, the other absent.
C36_Witness ==
    \E p, q \in Procs :
        /\ run[p].entry = "ctor" /\ run[q].entry = "ctor"
        /\ run[p].impl = "old" /\ run[q].impl = "old"
        /\ Truthy(run[p].dry_run) /\ Truthy(run[q].dry_run)
        /\ Finished(run[p]) /\ Finished(run[q])
        /\ "head:ok" \in Range(run[p].steps)
        /\ "head:ClientError404" \in Range(run[q].steps)
        /\ run[p].pc = run[q].pc /\ run[p].exc = run[q].exc
        /\ "calibrate" \in Range(run[p].steps)
====
